---- MODULE Spec2Model ----
(***************************************************************************)
(* A model of OnePageCVBuilder (src/OnePage.py): template analysis         *)
(* (_get_all_blocks, _parse_template_structure, _build_dynamic_schema) and *)
(* the injection pipeline of generate_document.                            *)
(*                                                                         *)
(* A Python str is a sequence of one-character strings.  A Run is its      *)
(* text; a Paragraph (block) is the sequence of its runs; a Document is a  *)
(* record of body paragraphs and tables (table = rows of cells of          *)
(* paragraphs).  A dict is a function whose DOMAIN is its key set.         *)
(***************************************************************************)
EXTENDS Integers, Sequences, FiniteSets, TLC

----------------------------------------------------------------------------
(* Bounds of the explored inputs.                                          *)

\* most blocks (body and table-cell paragraphs) of a template of Spec
MaxBlocks == 2
\* longest list of items the collaborator returns for a group
MaxItems == 2
\* most blocks of a template of SpecAnalyze
MaxParseBlocks == 2

----------------------------------------------------------------------------
(* Python str primitives.                                                  *)

\* str + str over a sequence of strings: "".join(parts)
RECURSIVE Join(_)
Join(parts) ==
    IF parts = <<>> THEN <<>> ELSE Head(parts) \o Join(Tail(parts))

\* s[i:i+len(p)] == p  (1-based i)
MatchAt(s, p, i) ==
    /\ i + Len(p) - 1 <= Len(s)
    /\ SubSeq(s, i, i + Len(p) - 1) = p

\* p in s
Contains(s, p) == \E i \in 1..(Len(s) + 1) : MatchAt(s, p, i)

\* s.startswith(p), s.endswith(p)
StartsWith(s, p) == MatchAt(s, p, 1)
EndsWith(s, p) == Len(p) <= Len(s) /\ MatchAt(s, p, Len(s) - Len(p) + 1)

\* s.replace(old, new) for a non-empty old: every non-overlapping occurrence,
\* scanning from the left
RECURSIVE ReplaceFrom(_, _, _, _)
ReplaceFrom(s, old, new, i) ==
    IF i > Len(s) THEN <<>>
    ELSE IF MatchAt(s, old, i) THEN new \o ReplaceFrom(s, old, new, i + Len(old))
    ELSE <<s[i]>> \o ReplaceFrom(s, old, new, i + 1)

StrReplace(s, old, new) == ReplaceFrom(s, old, new, 1)

----------------------------------------------------------------------------
(* Character classes of the two regular expressions.                       *)

UpperChars == {"A", "B", "C", "D", "E", "F", "G", "H", "I", "J", "K", "L", "M",
               "N", "O", "P", "Q", "R", "S", "T", "U", "V", "W", "X", "Y", "Z"}
DigitChars == {"0", "1", "2", "3", "4", "5", "6", "7", "8", "9"}
\* [A-Z0-9_]
KeyChars == UpperChars \cup DigitChars \cup {"_"}
\* [A-Z_]
FieldChars == UpperChars \cup {"_"}

DigitValue(c) ==
    CASE c = "0" -> 0 [] c = "1" -> 1 [] c = "2" -> 2 [] c = "3" -> 3
      [] c = "4" -> 4 [] c = "5" -> 5 [] c = "6" -> 6 [] c = "7" -> 7
      [] c = "8" -> 8 [] c = "9" -> 9

\* int(digits)
RECURSIVE ParseInt(_)
ParseInt(digits) ==
    IF digits = <<>> THEN 0
    ELSE 10 * ParseInt(SubSeq(digits, 1, Len(digits) - 1))
         + DigitValue(digits[Len(digits)])

\* str(i) for i >= 0, as the f-string formats the slot number
RECURSIVE IntToStr(_)
IntToStr(i) ==
    LET d == <<"0", "1", "2", "3", "4", "5", "6", "7", "8", "9">>
    IN  IF i < 10 THEN <<d[i + 1]>>
        ELSE IntToStr(i \div 10) \o <<d[(i % 10) + 1]>>

----------------------------------------------------------------------------
(* dict primitives.                                                        *)

EmptyDict == [k \in {} |-> <<>>]

\* d[k] = v
Put(d, k, v) == [x \in (DOMAIN d) \cup {k} |-> IF x = k THEN v ELSE d[x]]

\* d.get(k, default)
Get(d, k, default) == IF k \in DOMAIN d THEN d[k] ELSE default

\* the orders in which a set can be iterated (list(set), for x in set)
Orders(S) ==
    {o \in [1..Cardinality(S) -> S] :
        \A i, j \in 1..Cardinality(S) : i # j => o[i] # o[j]}

Range(seq) == {seq[i] : i \in 1..Len(seq)}

----------------------------------------------------------------------------
(* The document model of python-docx.                                      *)

\* Paragraph.text: the concatenation of the texts of the runs
ParagraphText(block) == Join(block)

\* Paragraph.clear(): every run is removed
ClearedParagraph == <<>>

\* Paragraph.text = t: the content is removed and one run holding t is added
SetParagraphText(t) == <<t>>

\* the paragraphs of the cells of the rows of the tables, in that order
RECURSIVE CellParagraphs(_)
CellParagraphs(nested) ==
    IF nested = <<>> THEN <<>>
    ELSE Join(Join(Head(nested))) \o CellParagraphs(Tail(nested))

\* _get_all_blocks of a loaded Document: body paragraphs, then every
\* paragraph of every cell of every row of every table
GetAllBlocks(document) ==
    document.paragraphs \o CellParagraphs(document.tables)

----------------------------------------------------------------------------
(* _parse_template_structure.                                              *)

LBRACES == <<"{", "{">>
RBRACES == <<"}", "}">>

\* the placeholder f"{{{{{key}}}}}"
Placeholder(key) == LBRACES \o key \o RBRACES

\* the length of the longest run of characters of class starting at s[i]
RECURSIVE RunLength(_, _, _)
RunLength(s, i, class) ==
    IF i <= Len(s) /\ s[i] \in class THEN 1 + RunLength(s, i + 1, class) ELSE 0

\* re.findall(r"\{\{([A-Z0-9_]+)\}\}", text): the keys of the matches found
\* scanning from the left, each scan resuming where the last match ended
RECURSIVE FindAllFrom(_, _)
FindAllFrom(text, i) ==
    IF i > Len(text) THEN <<>>
    ELSE LET n == RunLength(text, i + 2, KeyChars)
         IN  IF /\ MatchAt(text, LBRACES, i)
                /\ n >= 1
                /\ MatchAt(text, RBRACES, i + 2 + n)
             THEN <<SubSeq(text, i + 2, i + 1 + n)>>
                  \o FindAllFrom(text, i + n + 4)
             ELSE FindAllFrom(text, i + 1)

FindAll(text) == FindAllFrom(text, 1)

NoMatch == [matched |-> FALSE]

\* re.match(r"^([A-Z]+)(\d+)_([A-Z_]+)$", full_key) and its groups(), the
\* index already converted by int()
IndexedMatch(full_key) ==
    LET a == RunLength(full_key, 1, UpperChars)
        d == RunLength(full_key, a + 1, DigitChars)
        f == RunLength(full_key, a + d + 2, FieldChars)
    IN  IF /\ a >= 1
           /\ d >= 1
           /\ a + d + 1 <= Len(full_key)
           /\ full_key[a + d + 1] = "_"
           /\ f >= 1
           /\ a + d + 1 + f = Len(full_key)
        THEN [matched |-> TRUE,
              prefix |-> SubSeq(full_key, 1, a),
              index |-> ParseInt(SubSeq(full_key, a + 1, a + d)),
              field |-> SubSeq(full_key, a + d + 2, Len(full_key))]
        ELSE NoMatch

Max(a, b) == IF a >= b THEN a ELSE b

\* the position of prefix in the dict (a sequence in insertion order), or 0
PrefixPos(dynamic_map, prefix) ==
    IF \E i \in 1..Len(dynamic_map) : dynamic_map[i].prefix = prefix
    THEN CHOOSE i \in 1..Len(dynamic_map) : dynamic_map[i].prefix = prefix
    ELSE 0

\* ParseKey with the index of the last token taken for max_index
ParseKey_LastIndex(acc, full_key) ==
    LET m == IndexedMatch(full_key) IN
    IF m.matched
    THEN LET map0 == IF PrefixPos(acc.dynamic_map, m.prefix) = 0
                     THEN Append(acc.dynamic_map,
                                 [prefix |-> m.prefix, max_index |-> 0,
                                  fields |-> {}])
                     ELSE acc.dynamic_map
             p == PrefixPos(map0, m.prefix)
         IN  [acc EXCEPT !.dynamic_map =
                 [map0 EXCEPT ![p] =
                     [prefix |-> m.prefix,
                      max_index |-> m.index,
                      fields |-> map0[p].fields \cup {m.field}]]]
    ELSE [acc EXCEPT !.static_set = acc.static_set \cup {full_key}]

\* the body of the loop over the matches, for one full_key
ParseKey(acc, full_key) ==
    LET m == IndexedMatch(full_key) IN
    IF m.matched
    THEN LET map0 == IF PrefixPos(acc.dynamic_map, m.prefix) = 0
                     THEN Append(acc.dynamic_map,
                                 [prefix |-> m.prefix, max_index |-> 0,
                                  fields |-> {}])
                     ELSE acc.dynamic_map
             p == PrefixPos(map0, m.prefix)
         IN  [acc EXCEPT !.dynamic_map =
                 [map0 EXCEPT ![p] =
                     [prefix |-> m.prefix,
                      max_index |-> Max(map0[p].max_index, m.index),
                      fields |-> map0[p].fields \cup {m.field}]]]
    ELSE [acc EXCEPT !.static_set = acc.static_set \cup {full_key}]

RECURSIVE ParseKeys(_, _)
ParseKeys(acc, keys) ==
    IF keys = <<>> THEN acc
    ELSE ParseKeys(ParseKey(acc, Head(keys)), Tail(keys))

\* the keys of all matches of all blocks, in scan order
RECURSIVE BlockKeys(_)
BlockKeys(blocks) ==
    IF blocks = <<>> THEN <<>>
    ELSE FindAll(ParagraphText(Head(blocks))) \o BlockKeys(Tail(blocks))

\* static_set and dynamic_map when the loops of _parse_template_structure
\* end; dynamic_map is the dict as the sequence of its entries
ParseTemplateStructure(blocks) ==
    ParseKeys([static_set |-> {}, dynamic_map |-> <<>>], BlockKeys(blocks))

\* what _parse_template_structure can return: list(static_set) in any order
\* and, per group, the fields set in the order its iteration will take
ParseResults(blocks) ==
    LET r == ParseTemplateStructure(blocks)
        n == Len(r.dynamic_map)
    IN  {[static_placeholders |-> sp, dynamic_sections |-> ds] :
            sp \in Orders(r.static_set),
            ds \in {d \in [1..n -> [prefix : {r.dynamic_map[i].prefix : i \in 1..n},
                                     max_index : {r.dynamic_map[i].max_index : i \in 1..n},
                                     fields : UNION {Orders(r.dynamic_map[i].fields) : i \in 1..n}]] :
                      \A i \in 1..n :
                          /\ d[i].prefix = r.dynamic_map[i].prefix
                          /\ d[i].max_index = r.dynamic_map[i].max_index
                          /\ d[i].fields \in Orders(r.dynamic_map[i].fields)}}

----------------------------------------------------------------------------
(* _build_dynamic_schema.                                                  *)

JOB == <<"J", "O", "B">>
EXP == <<"E", "X", "P">>

StaticSchemaEntry(key) ==
    [type |-> "string",
     description |-> <<"Content for ", key, ". If not found, return empty string.">>]

GroupSchemaEntry(meta) ==
    [type |-> "array",
     description |->
        <<"List of dictionaries for ", meta.prefix,
          " (e.g., Work Experience, Certificates). ",
          "Extract the most relevant items.">>
        \o (IF meta.prefix = JOB \/ meta.prefix = EXP
            THEN <<" Limit to 3-4 most relevant roles. Use active verbs.">>
            ELSE <<>>),
     items |-> [type |-> "object",
                properties |-> [field \in Range(meta.fields) |->
                                   [type |-> "string"]]]]

\* the first loop: schema[key] = {...} for key in self.static_placeholders
RECURSIVE SchemaStatics(_, _)
SchemaStatics(schema, keys) ==
    IF keys = <<>> THEN schema
    ELSE SchemaStatics(Put(schema, Head(keys), StaticSchemaEntry(Head(keys))),
                       Tail(keys))

\* the second loop: schema[prefix] = {...} for every item of dynamic_sections
RECURSIVE SchemaGroups(_, _)
SchemaGroups(schema, sections) ==
    IF sections = <<>> THEN schema
    ELSE SchemaGroups(Put(schema, Head(sections).prefix,
                          GroupSchemaEntry(Head(sections))),
                      Tail(sections))

BuildDynamicSchema(statics, sections) ==
    SchemaGroups(SchemaStatics(EmptyDict, statics), sections)

----------------------------------------------------------------------------
(* JSON values, optimize_content.                                          *)

\* a decoded JSON value carries its Python type
JStr(s) == [t |-> "str", s |-> s]
JList(l) == [t |-> "list", l |-> l]
JDict(d) == [t |-> "dict", d |-> d]

\* not value
Falsy(value) ==
    CASE value.t = "str" -> value.s = <<>>
      [] value.t = "list" -> value.l = <<>>
      [] value.t = "dict" -> DOMAIN value.d = {}

\* len(value)
PyLen(value) ==
    CASE value.t = "str" -> Len(value.s)
      [] value.t = "list" -> Len(value.l)
      [] value.t = "dict" -> Cardinality(DOMAIN value.d)

\* str(value); the explored responses hold a str wherever a value is
\* substituted
PyStr(value) == CASE value.t = "str" -> value.s

\* the try block of optimize_content: json.loads of the fence-stripped
\* response text returns the decoded value, or JSONDecodeError is caught
\* and {} returned
OptimizeContent(response) ==
    IF response.valid_json THEN response.value ELSE JDict(EmptyDict)

----------------------------------------------------------------------------
(* _replace_text_preserve_style, _format_bullet_points.                    *)

BULLET_POINT_SUFFIXES ==
    << <<"_", "D", "E", "S", "C">>,
       <<"_", "A", "C", "H", "I", "E", "V", "E", "M", "E", "N", "T", "S">>,
       <<"_", "R", "E", "S", "P", "O", "N", "S", "I", "B", "I", "L", "I", "T",
         "I", "E", "S">>,
       <<"_", "D", "E", "T", "A", "I", "L", "S">> >>

NEWLINE == <<"\n">>
\* the two characters of the bullet prefix, U+2022 and a space
BULLET == <<"*", " ">>

\* the runs of element whose text contains placeholder
RunsContaining(element, placeholder) ==
    {r \in 1..Len(element) : Contains(element[r], placeholder)}

FirstOf(S) == CHOOSE r \in S : \A q \in S : r <= q

\* _replace_text_preserve_style without its return: every run holding the
\* placeholder is rewritten
ReplaceTextPreserveStyle_EveryRun(element, placeholder, new_text) ==
    IF Contains(ParagraphText(element), placeholder)
    THEN IF RunsContaining(element, placeholder) # {}
         THEN [r \in 1..Len(element) |->
                  StrReplace(element[r], placeholder, new_text)]
         ELSE SetParagraphText(
                  StrReplace(ParagraphText(element), placeholder, new_text))
    ELSE element

\* lines 164 to 173
ReplaceTextPreserveStyle(element, placeholder, new_text) ==
    IF Contains(ParagraphText(element), placeholder)
    THEN IF RunsContaining(element, placeholder) # {}
         THEN LET r == FirstOf(RunsContaining(element, placeholder))
              IN  [element EXCEPT ![r] = StrReplace(element[r], placeholder, new_text)]
         ELSE SetParagraphText(
                  StrReplace(ParagraphText(element), placeholder, new_text))
    ELSE element

FormatBulletPoints(text) ==
    IF text = <<>> THEN <<>>
    ELSE LET formatted == StrReplace(text, NEWLINE, NEWLINE \o BULLET)
         IN  IF ~StartsWith(formatted, BULLET) THEN BULLET \o formatted
             ELSE formatted

\* any(field.endswith(suffix) for suffix in self.BULLET_POINT_SUFFIXES)
IsBulletField(field) ==
    \E n \in 1..Len(BULLET_POINT_SUFFIXES) :
        EndsWith(field, BULLET_POINT_SUFFIXES[n])

\* InjectBlock that removes the token of an empty value and keeps the rest
\* of the block
InjectBlock_KeepsBlock(block, placeholder, value) ==
    IF Contains(ParagraphText(block), placeholder)
    THEN IF Falsy(value)
         THEN ReplaceTextPreserveStyle(block, placeholder, <<>>)
         ELSE ReplaceTextPreserveStyle(block, placeholder, PyStr(value))
    ELSE block

\* the body of "for block in all_blocks_to_modify" of both phases
InjectBlock(block, placeholder, value) ==
    IF Contains(ParagraphText(block), placeholder)
    THEN IF Falsy(value) THEN ClearedParagraph
         ELSE ReplaceTextPreserveStyle(block, placeholder, PyStr(value))
    ELSE block

----------------------------------------------------------------------------
(* The explored inputs of generate_document: template documents and        *)
(* responses of the generation collaborator.                               *)

NAME == <<"N", "A", "M", "E">>
EMAIL == <<"E", "M", "A", "I", "L">>
TITLE == <<"T", "I", "T", "L", "E">>
DESC == <<"D", "E", "S", "C">>
JOB_DESC == <<"J", "O", "B", "_", "D", "E", "S", "C">>

\* paragraphs a template is put together from, each the texts of its runs
P_GREETING ==
    << <<"H", "i", " ">>,
       <<"{", "{", "N", "A", "M", "E", "}", "}">>,
       <<",", " ", "{", "{", "N", "A", "M", "E", "}", "}", " ", "{", "{",
         "E", "M">>,
       <<"A", "I", "L", "}", "}">> >>
P_JOB1 ==
    << <<"{", "{", "J", "O", "B", "1", "_", "T", "I", "T", "L", "E", "}", "}">>,
       <<"{", "{", "J", "O", "B", "1", "_", "D", "E", "S", "C", "}", "}">> >>
P_JOB2 ==
    << <<"{", "{", "J", "O", "B", "2", "_", "T", "I", "T", "L", "E", "}",
      "}", " ">>,
       <<"{", "{", "J", "O", "B", "2", "_", "J", "O", "B", "_", "D", "E",
      "S", "C", "}", "}">> >>
P_JOB01 == << <<"{", "{", "J", "O", "B", "0", "1", "_", "T", "I", "T", "L", "E",
      "}", "}">> >>
P_CELL == << <<"T", "o", "t", "a", "l", " ">>,
            <<"{", "{", "N", "A", "M", "E", "}", "}">> >>

BodyParagraphs == {P_GREETING, P_JOB1, P_JOB2, P_JOB01}

\* no table, or one table of one row of one cell of one paragraph
TableLayouts == {<<>>, << << << <<P_CELL>> >> >> >>}

SeqsUpTo(S, n) == UNION {[1..m -> S] : m \in 0..n}

Templates ==
    {t \in [paragraphs : SeqsUpTo(BodyParagraphs, MaxBlocks), tables : TableLayouts] :
        Len(GetAllBlocks(t)) \in 1..MaxBlocks}

V_ADA == <<"A", "d", "a">>
V_MAIL == <<"a", "@", "b">>
V_ENG == <<"E", "n", "g">>
V_DEV == <<"D", "e", "v">>
V_BUILT == <<"B", "u", "i", "l", "t", "\n", "S", "h", "i", "p", "p", "e", "d">>
V_LED == <<"L", "e", "d", "\n", "W", "o", "n">>
V_TOKEN == Placeholder(JOB \o <<"1", "_">> \o DESC)

\* items of a group: dicts from field name to str
ITEM_FULL == [f \in {TITLE, DESC, JOB_DESC} |->
                 IF f = TITLE THEN V_ENG ELSE IF f = DESC THEN V_BUILT ELSE V_LED]
ITEM_ECHO == [f \in {TITLE, DESC, JOB_DESC} |->
                 IF f = TITLE THEN V_TOKEN ELSE IF f = DESC THEN V_DEV ELSE <<>>]
Items == {ITEM_FULL, ITEM_ECHO}

\* the JSON objects the collaborator may answer with: each key absent or
\* present with one of its values
ResponseObjects ==
    {[k \in ks |-> IF k = NAME THEN n ELSE IF k = EMAIL THEN e ELSE j] :
        ks \in {{EMAIL} \cup x : x \in SUBSET {NAME, JOB}},
        n \in {JStr(<<>>), JStr(V_ADA)},
        e \in {JStr(V_MAIL)},
        j \in {JList(l) : l \in SeqsUpTo(Items, MaxItems)}}

Responses ==
    \* text that is not JSON
    {[valid_json |-> FALSE]}
    \* a JSON object of the shape the schema asks for
    \cup {[valid_json |-> TRUE, value |-> JDict(d)] : d \in ResponseObjects}
    \* valid JSON that is not an object
    \cup {[valid_json |-> TRUE, value |-> JList(<<>>)]}
    \* a JSON object whose group value is a string, not a list of objects
    \cup {[valid_json |-> TRUE, value |-> JDict([k \in {JOB} |-> JStr(V_ENG)])]}

----------------------------------------------------------------------------
(* The state of one OnePageCVBuilder and of its generate_document.         *)

VARIABLES
    template,              \* the document stored at self.template_path
    all_blocks,            \* self.all_blocks
    static_placeholders,   \* self.static_placeholders, a list
    dynamic_sections,      \* self.dynamic_sections, in the dict's order
    schema_guidelines,     \* self.schema_guidelines
    data_map,              \* data_map of generate_document
    doc,                   \* doc of generate_document
    all_blocks_to_modify,  \* all_blocks_to_modify of generate_document
    output,                \* the file at self.output_path
    pc,                    \* the statement the builder is at
    at,                    \* the loop variables of generate_document
    cv,                    \* the document stored at the optimizer's cv_path
    self_doc,              \* self.doc of the CvOptimizer
    optimized_cv,          \* the file at the optimizer's output_path
    calls,                 \* the calls of generate_content the optimizer made
    proc                   \* where process is, and its loop variables

builderVars == <<template, all_blocks, static_placeholders, dynamic_sections,
                 schema_guidelines>>
runVars == <<data_map, doc, all_blocks_to_modify, output, pc, at>>
optimizerVars == <<cv, self_doc, optimized_cv, calls, proc>>
vars == <<template, all_blocks, static_placeholders, dynamic_sections,
          schema_guidelines, data_map, doc, all_blocks_to_modify, output,
          pc, at, cv, self_doc, optimized_cv, calls, proc>>

NoDocument == [paragraphs |-> <<>>, tables |-> <<>>]
NoFile == [written |-> FALSE, document |-> NoDocument]

\* the paragraph process is at, the stripped text of it and the text to put
\* in its place
Locals(p, n, text, optimized_text) ==
    [pc |-> p, n |-> n, text |-> text, optimized_text |-> optimized_text]

\* no CvOptimizer has been constructed
NoOptimizer ==
    /\ cv = NoDocument
    /\ self_doc = NoDocument
    /\ optimized_cv = NoFile
    /\ calls = <<>>
    /\ proc = Locals("none", 0, <<>>, <<>>)

Cursor(k, p, i, f) == [key |-> k, prefix |-> p, slot |-> i, field |-> f]

\* no call of generate_document is under way: its locals do not exist
NoLocals ==
    /\ data_map = JDict(EmptyDict)
    /\ doc = NoDocument
    /\ all_blocks_to_modify = <<>>
    /\ at = Cursor(0, 0, 0, 0)

\* the state __init__ leaves: lines 29 to 31
Init ==
    /\ template \in Templates
    /\ all_blocks = GetAllBlocks(template)
    /\ \E r \in ParseResults(all_blocks) :
          /\ static_placeholders = r.static_placeholders
          /\ dynamic_sections = r.dynamic_sections
    /\ schema_guidelines = BuildDynamicSchema(static_placeholders, dynamic_sections)
    /\ NoLocals
    /\ output = NoFile
    /\ pc = "ready"
    /\ NoOptimizer

\* "for block in all_blocks_to_modify" of both phases: every block that
\* holds the placeholder is cleared or rewritten, each on its own
InjectBlocks(blocks, placeholder, value) ==
    [b \in 1..Len(blocks) |-> InjectBlock(blocks[b], placeholder, value)]

\* where control is when the loop over the static keys reaches key k
ToStaticKey(k) ==
    IF k <= Len(static_placeholders)
    THEN [pc |-> "static", at |-> Cursor(k, 0, 0, 0)]
    ELSE [pc |-> "dynamic", at |-> Cursor(0, 1, 0, 0)]

\* lines 187 to 197: the collaborator answers, optimize_content decodes, the
\* template is loaded into doc and, once more, into the blocks to modify; or
\* the call of line 154, which is outside the try block, raises and the
\* exception leaves generate_document at line 190
GenerateContent ==
    /\ pc = "ready"
    /\ \/ /\ \E response \in Responses : data_map' = OptimizeContent(response)
          /\ doc' = template
          /\ all_blocks_to_modify' = GetAllBlocks(template)
          /\ pc' = ToStaticKey(1).pc
          /\ at' = ToStaticKey(1).at
       \/ /\ pc' = "raised"
          /\ UNCHANGED <<data_map, doc, all_blocks_to_modify, at>>
    /\ UNCHANGED <<builderVars, output>>
    /\ UNCHANGED optimizerVars

\* lines 202 to 211 were the loop to run over self.all_blocks, the blocks
\* enumerated at initialization, in place of a load of its own
InjectStatic_OnInventoryBlocks ==
    /\ pc = "static"
    /\ LET key == static_placeholders[at.key]
       IN  IF data_map.t # "dict"
           THEN /\ pc' = "raised"
                /\ UNCHANGED <<all_blocks, all_blocks_to_modify, at>>
           ELSE /\ all_blocks' =
                      InjectBlocks(all_blocks, Placeholder(key),
                                   Get(data_map.d, key, JStr(<<>>)))
                /\ all_blocks_to_modify' = all_blocks'
                /\ pc' = ToStaticKey(at.key + 1).pc
                /\ at' = ToStaticKey(at.key + 1).at
    /\ UNCHANGED <<template, static_placeholders, dynamic_sections,
                   schema_guidelines, data_map, doc, output>>
    /\ UNCHANGED optimizerVars

\* lines 202 to 211, for the key the loop is at
InjectStatic ==
    /\ pc = "static"
    /\ LET key == static_placeholders[at.key]
       IN  IF data_map.t # "dict"
           THEN \* data_map.get raises AttributeError
                /\ pc' = "raised"
                /\ UNCHANGED <<all_blocks_to_modify, at>>
           ELSE /\ all_blocks_to_modify' =
                      InjectBlocks(all_blocks_to_modify, Placeholder(key),
                                   Get(data_map.d, key, JStr(<<>>)))
                /\ pc' = ToStaticKey(at.key + 1).pc
                /\ at' = ToStaticKey(at.key + 1).at
    /\ UNCHANGED <<builderVars, data_map, doc, output>>
    /\ UNCHANGED optimizerVars

\* where control is when the loop over the sections reaches section p
ToSection(p) == [pc |-> "dynamic", at |-> Cursor(0, p, 0, 0)]

\* lines 215 to 219: section_data is looked up and its length logged
EnterSection ==
    /\ pc = "dynamic"
    /\ at.prefix <= Len(dynamic_sections)
    /\ LET meta == dynamic_sections[at.prefix]
       IN  IF data_map.t # "dict"
           THEN \* data_map.get raises AttributeError
                /\ pc' = "raised"
                /\ at' = at
           ELSE IF meta.max_index >= 1
           THEN /\ pc' = "slot"
                /\ at' = Cursor(0, at.prefix, 1, 1)
           ELSE /\ pc' = ToSection(at.prefix + 1).pc
                /\ at' = ToSection(at.prefix + 1).at
    /\ UNCHANGED <<builderVars, data_map, doc, all_blocks_to_modify, output>>
    /\ UNCHANGED optimizerVars

\* section_data[i-1] if i <= len(section_data) else {}, then item_data.get:
\* an element of a str is a str, which has no get
SlotItem(section_data, i) ==
    IF i <= PyLen(section_data)
    THEN IF section_data.t = "list"
         THEN [is_dict |-> TRUE, item |-> section_data.l[i]]
         ELSE [is_dict |-> FALSE, item |-> EmptyDict]
    ELSE [is_dict |-> TRUE, item |-> EmptyDict]

\* line 228: the placeholder of a slot's field
SlotPlaceholder(prefix, i, field) ==
    Placeholder(prefix \o IntToStr(i) \o <<"_">> \o field)

\* lines 231 to 235: the value put in its place
SlotValue(item_data, field) ==
    LET value == Get(item_data, field, <<>>)
    IN  IF IsBulletField(field) THEN FormatBulletPoints(value) ELSE value

\* lines 222 to 244, for the slot and the field the loops are at
InjectSlot ==
    /\ pc = "slot"
    /\ LET meta == dynamic_sections[at.prefix]
           section_data == Get(data_map.d, meta.prefix, JList(<<>>))
           got == SlotItem(section_data, at.slot)
           field == meta.fields[at.field]
           next == IF at.field < Len(meta.fields)
                   THEN [pc |-> "slot", at |-> [at EXCEPT !.field = at.field + 1]]
                   ELSE IF at.slot < meta.max_index
                   THEN [pc |-> "slot", at |-> Cursor(0, at.prefix, at.slot + 1, 1)]
                   ELSE ToSection(at.prefix + 1)
       IN  IF ~got.is_dict
           THEN \* item_data.get raises AttributeError
                /\ pc' = "raised"
                /\ UNCHANGED <<all_blocks_to_modify, at>>
           ELSE /\ all_blocks_to_modify' =
                      InjectBlocks(all_blocks_to_modify,
                                   SlotPlaceholder(meta.prefix, at.slot, field),
                                   JStr(SlotValue(got.item, field)))
                /\ pc' = next.pc
                /\ at' = next.at
    /\ UNCHANGED <<builderVars, data_map, doc, output>>
    /\ UNCHANGED optimizerVars

\* lines 226 to 244 for one slot: the fields substituted one after the
\* other in the order the set's iteration yields them
RECURSIVE InjectFields(_, _, _, _, _)
InjectFields(blocks, prefix, i, item_data, order) ==
    IF order = <<>> THEN blocks
    ELSE InjectFields(
             InjectBlocks(blocks, SlotPlaceholder(prefix, i, Head(order)),
                          JStr(SlotValue(item_data, Head(order)))),
             prefix, i, item_data, Tail(order))

\* the static phase as a whole: lines 202 to 211 for every key in the list's
\* order
RECURSIVE InjectStatics(_, _, _)
InjectStatics(blocks, keys, map) ==
    IF keys = <<>> THEN blocks
    ELSE InjectStatics(
             InjectBlocks(blocks, Placeholder(Head(keys)),
                          Get(map, Head(keys), JStr(<<>>))),
             Tail(keys), map)

\* lines 222 to 244 for one section: the slots i to max_index in turn
RECURSIVE InjectSlots(_, _, _, _)
InjectSlots(blocks, meta, section_data, i) ==
    IF i > meta.max_index THEN blocks
    ELSE InjectSlots(
             InjectFields(blocks, meta.prefix, i,
                          SlotItem(section_data, i).item, meta.fields),
             meta, section_data, i + 1)

\* the dynamic phase as a whole: lines 215 to 244 for every section in the
\* dict's order
RECURSIVE InjectSections(_, _, _)
InjectSections(blocks, sections, map) ==
    IF sections = <<>> THEN blocks
    ELSE InjectSections(
             InjectSlots(blocks, Head(sections),
                         Get(map, Head(sections).prefix, JList(<<>>)), 1),
             Tail(sections), map)

\* doc.save moved up, in front of the loop over the sections or between two
\* of its iterations
Save_BeforeSections ==
    /\ pc = "dynamic"
    /\ output' = [written |-> TRUE, document |-> doc]
    /\ pc' = "done"
    /\ UNCHANGED <<builderVars, data_map, doc, all_blocks_to_modify, at>>
    /\ UNCHANGED optimizerVars

\* line 247: doc.save(self.output_path)
Save ==
    /\ pc = "dynamic"
    /\ at.prefix > Len(dynamic_sections)
    /\ output' = [written |-> TRUE, document |-> doc]
    /\ pc' = "done"
    /\ UNCHANGED <<builderVars, data_map, doc, all_blocks_to_modify, at>>
    /\ UNCHANGED optimizerVars

\* generate_document returns after line 248, or an exception leaves it: the
\* locals are gone and the builder can be called again
Return ==
    /\ pc \in {"done", "raised"}
    /\ data_map' = JDict(EmptyDict)
    /\ doc' = NoDocument
    /\ all_blocks_to_modify' = <<>>
    /\ at' = Cursor(0, 0, 0, 0)
    /\ pc' = "ready"
    /\ UNCHANGED <<builderVars, output>>
    /\ UNCHANGED optimizerVars

Next ==
    \/ GenerateContent
    \/ InjectStatic
    \/ EnterSection
    \/ InjectSlot
    \/ Save
    \/ Return

Spec == Init /\ [][Next]_vars

----------------------------------------------------------------------------
(* The construction of a builder, statement by statement (lines 29 to 31), *)
(* over templates whose tokens are well and ill formed.                    *)

\* keys put between {{ and }}: static, indexed (leading zeros, several
\* digits, index 0), and keys neither regular expression accepts
AnalyzeKeys ==
    {<<"N">>,
     <<"J">>,
     <<"J", "1">>,
     <<"J", "1", "_", "T">>,
     <<"J", "2", "_", "T">>,
     <<"J", "0", "2", "_", "D">>,
     <<"J", "1", "0", "_", "T">>,
     <<"K", "1", "_", "T">>,
     <<"J", "1", "_">>,
     <<"J", "_", "T">>,
     <<"1", "_", "T">>,
     <<"J", "1", "T">>,
     <<"j", "1", "_", "T">>,
     <<"J", "1", "_", "t">>,
     <<"J", "1", "-", "T">>,
     <<"J", "1", "_", "T", "_", "D">>,
     <<"J", "1", "_", "2">>,
     <<"J", "0", "_", "T">>}

\* paragraphs with a token split over two runs, single and triple braces,
\* two tokens in one run, an unclosed token and an empty key
AnalyzeTexts ==
    {<< <<"{", "{", "J", "3">>, <<"_", "T", "}", "}">> >>,
     << <<"{", "N", "}">> >>,
     << <<"{", "{", "{", "N", "}", "}", "}">> >>,
     << <<"{", "{", "N", "}", "}", "{", "{", "J", "4", "_", "D", "}", "}">> >>,
     << <<"{", "{", "N", "{", "{", "M", "}", "}">> >>,
     << <<"{", "{", "}", "}">> >>}

AnalyzeParagraphs == {<<Placeholder(k)>> : k \in AnalyzeKeys} \cup AnalyzeTexts

AnalyzeTableLayouts ==
    {<<>>, << << << << <<Placeholder(<<"J", "5", "_", "T">>)>> >> >> >> >>}

AnalyzeTemplates ==
    {t \in [paragraphs : SeqsUpTo(AnalyzeParagraphs, MaxParseBlocks),
            tables : AnalyzeTableLayouts] :
        Len(GetAllBlocks(t)) \in 1..MaxParseBlocks}

InitAnalyze ==
    /\ template \in AnalyzeTemplates
    /\ all_blocks = <<>>
    /\ static_placeholders = <<>>
    /\ dynamic_sections = <<>>
    /\ schema_guidelines = EmptyDict
    /\ NoLocals
    /\ output = NoFile
    /\ pc = "new"
    /\ NoOptimizer

\* line 29
LoadBlocks ==
    /\ pc = "new"
    /\ all_blocks' = GetAllBlocks(template)
    /\ pc' = "blocks"
    /\ UNCHANGED <<template, static_placeholders, dynamic_sections,
                   schema_guidelines, data_map, doc, all_blocks_to_modify,
                   output, at>>
    /\ UNCHANGED optimizerVars

\* line 30
ParseTemplate ==
    /\ pc = "blocks"
    /\ \E r \in ParseResults(all_blocks) :
          /\ static_placeholders' = r.static_placeholders
          /\ dynamic_sections' = r.dynamic_sections
    /\ pc' = "parsed"
    /\ UNCHANGED <<template, all_blocks, schema_guidelines, data_map, doc,
                   all_blocks_to_modify, output, at>>
    /\ UNCHANGED optimizerVars

\* line 31
BuildSchema ==
    /\ pc = "parsed"
    /\ schema_guidelines' =
          BuildDynamicSchema(static_placeholders, dynamic_sections)
    /\ pc' = "ready"
    /\ UNCHANGED <<template, all_blocks, static_placeholders,
                   dynamic_sections, data_map, doc, all_blocks_to_modify,
                   output, at>>
    /\ UNCHANGED optimizerVars

NextAnalyze ==
    \/ LoadBlocks
    \/ ParseTemplate
    \/ BuildSchema

SpecAnalyze == InitAnalyze /\ [][NextAnalyze]_vars

----------------------------------------------------------------------------
(* Properties of generate_document, checked under Spec.                    *)

\* the texts of a sequence of blocks
Texts(blocks) == [b \in 1..Len(blocks) |-> ParagraphText(blocks[b])]

\* the blocks of the template as stored
TemplateBlocks == GetAllBlocks(template)

\* C1: when generate_document has completed, the block texts of the saved
\* document are the block texts the injection phases produced.
C1_SavedDocumentIsInjected ==
    pc = "done" =>
        /\ output.written
        /\ Texts(GetAllBlocks(output.document)) = Texts(all_blocks_to_modify)

\* the tokens whose key has a non-empty resolved value: static keys bound to
\* a non-empty str, and the fields of the items of a group bound to one
ResolvedTokens ==
    IF data_map.t # "dict" THEN {}
    ELSE LET d == data_map.d IN
         {Placeholder(k) : k \in {x \in DOMAIN d : d[x].t = "str" /\ d[x].s # <<>>}}
         \cup UNION {
             UNION {
                 {SlotPlaceholder(k, i, f) :
                     f \in {x \in DOMAIN d[k].l[i] : d[k].l[i][x] # <<>>}} :
                 i \in 1..Len(d[k].l)} :
             k \in {x \in DOMAIN d : d[x].t = "list"}}

\* C2: after both injection phases no block's text contains a token whose
\* key has a non-empty resolved value, wherever its instances stood.
C2_NoResolvedTokenRemains ==
    pc = "done" =>
        \A token \in ResolvedTokens :
            \A b \in 1..Len(all_blocks_to_modify) :
                ~Contains(ParagraphText(all_blocks_to_modify[b]), token)

\* the keys the parser recognises in a text as indexed tokens of a group,
\* with index in 1..m
RecognisedSlotKeys(text, prefix, m) ==
    {key \in Range(FindAll(text)) :
        /\ IndexedMatch(key).matched
        /\ IndexedMatch(key).prefix = prefix
        /\ IndexedMatch(key).index \in 1..m}

\* C3: for a group with max_index m and k <= m resolved items, after
\* injection every block that held a token of the slots k+1..m is cleared
\* and no block holds an indexed token the parser recognised for an index
\* in 1..m, whatever the textual form of that index.
C3_NoSlotTokenRemains ==
    (pc = "done" /\ data_map.t = "dict") =>
        \A g \in 1..Len(dynamic_sections) :
            LET meta == dynamic_sections[g]
                section_data == Get(data_map.d, meta.prefix, JList(<<>>))
                m == meta.max_index
                k == PyLen(section_data)
            IN  (section_data.t = "list" /\ k <= m) =>
                    \A b \in 1..Len(all_blocks_to_modify) :
                        /\ \A i \in (k + 1)..m : \A f \in Range(meta.fields) :
                              Contains(ParagraphText(TemplateBlocks[b]),
                                       SlotPlaceholder(meta.prefix, i, f))
                              => all_blocks_to_modify[b] = ClearedParagraph
                        /\ RecognisedSlotKeys(
                               ParagraphText(all_blocks_to_modify[b]),
                               meta.prefix, m) = {}

\* field names with a description, achievement, responsibility or detail
\* connotation: the suffixes of BULLET_POINT_SUFFIXES, with or without a
\* preceding part
HasBulletConnotation(field) ==
    \E n \in 1..Len(BULLET_POINT_SUFFIXES) :
        \/ field = Tail(BULLET_POINT_SUFFIXES[n])
        \/ EndsWith(field, BULLET_POINT_SUFFIXES[n])

\* the bullet transform: the bullet prefix before the value and at every
\* embedded newline
Bulleted(value) == BULLET \o StrReplace(value, NEWLINE, NEWLINE \o BULLET)

\* C4: in a step of the group injection for a field with such a connotation
\* and a non-empty value, every block that held the field's placeholder
\* holds the bulleted value afterwards.
C4_DescriptionFieldsAreBulleted ==
    [][(pc = "slot" /\ pc' # "raised") =>
          LET meta == dynamic_sections[at.prefix]
              field == meta.fields[at.field]
              item == SlotItem(Get(data_map.d, meta.prefix, JList(<<>>)),
                               at.slot).item
              value == Get(item, field, <<>>)
          IN  (HasBulletConnotation(field) /\ value # <<>>) =>
                  \A b \in 1..Len(all_blocks_to_modify) :
                      Contains(ParagraphText(all_blocks_to_modify[b]),
                               SlotPlaceholder(meta.prefix, at.slot, field))
                      => Contains(ParagraphText(all_blocks_to_modify'[b]),
                                  Bulleted(value))]_vars

\* C5: once the static phase is over, for every static key whose resolved
\* value is empty or absent, every block whose text in the template holds
\* the key's token is cleared entirely, and stays so; an exception leaves
\* generate_document only when the generation call raised before any
\* injection, the response is no object or a group's value is no list.
C5_EmptyStaticKeyClearsBlock ==
    /\ (pc \in {"dynamic", "slot", "done"} /\ data_map.t = "dict") =>
          \A n \in 1..Len(static_placeholders) :
              LET key == static_placeholders[n] IN
              Falsy(Get(data_map.d, key, JStr(<<>>))) =>
                  \A b \in 1..Len(all_blocks_to_modify) :
                      Contains(ParagraphText(TemplateBlocks[b]), Placeholder(key))
                      => /\ all_blocks_to_modify[b] = <<>>
                         /\ ParagraphText(all_blocks_to_modify[b]) = <<>>
    /\ pc = "raised" =>
          \/ at = Cursor(0, 0, 0, 0)
          \/ data_map.t # "dict"
          \/ \E k \in DOMAIN data_map.d :
                k \in {dynamic_sections[g].prefix : g \in 1..Len(dynamic_sections)}
                /\ data_map.d[k].t # "list"

\* a run completed with NAME empty or absent in which a block that held
\* "Hi {{NAME}}, {{NAME}} {{EMAIL}}" is cleared
C5_Witness ==
    /\ pc = "done"
    /\ data_map.t = "dict"
    /\ Falsy(Get(data_map.d, NAME, JStr(<<>>)))
    /\ EMAIL \in DOMAIN data_map.d
    /\ \E b \in 1..Len(all_blocks_to_modify) :
          /\ TemplateBlocks[b] = P_GREETING
          /\ all_blocks_to_modify[b] = <<>>

\* the blocks of the template that hold a token the parser takes for a
\* static or a slot placeholder
PlaceholderBlocks ==
    {b \in 1..Len(TemplateBlocks) : FindAll(ParagraphText(TemplateBlocks[b])) # <<>>}

C9_FieldOrderIsIrrelevant ==
    (pc = "slot" /\ at.field = 1) =>
        LET meta == dynamic_sections[at.prefix]
            got == SlotItem(Get(data_map.d, meta.prefix, JList(<<>>)), at.slot)
        IN  got.is_dict =>
                \A o1, o2 \in Orders(Range(meta.fields)) :
                    Texts(InjectFields(all_blocks_to_modify, meta.prefix,
                                       at.slot, got.item, o1))
                    = Texts(InjectFields(all_blocks_to_modify, meta.prefix,
                                         at.slot, got.item, o2))

\* the placeholder and the new text of the replacement a step of either
\* phase makes
StepPlaceholder ==
    IF pc = "static" THEN Placeholder(static_placeholders[at.key])
    ELSE SlotPlaceholder(dynamic_sections[at.prefix].prefix, at.slot,
                         dynamic_sections[at.prefix].fields[at.field])

StepNewText ==
    IF pc = "static"
    THEN Get(data_map.d, static_placeholders[at.key], JStr(<<>>)).s
    ELSE SlotValue(
             SlotItem(Get(data_map.d, dynamic_sections[at.prefix].prefix,
                          JList(<<>>)), at.slot).item,
             dynamic_sections[at.prefix].fields[at.field])

\* what one call of _replace_text_preserve_style may change of a block
ReplaceFrame(old, new, placeholder, new_text) ==
    LET holding == {r \in 1..Len(old) : Contains(old[r], placeholder)} IN
    IF ~Contains(ParagraphText(old), placeholder) THEN new = old
    ELSE IF holding # {}
    THEN /\ Len(new) = Len(old)
         /\ \A r \in 1..Len(old) :
               (\E q \in holding : q < r) \/ r \notin holding => new[r] = old[r]
         /\ new_text # placeholder =>
               \E r \in holding : /\ \A q \in holding : r <= q
                                  /\ new[r] # old[r]
    ELSE /\ Len(new) = 1
         /\ new_text # placeholder => ParagraphText(new) # ParagraphText(old)

\* C10: in every step that replaces a placeholder by a non-empty text, a
\* block with a run holding the whole token changes in the first such run
\* only, a block holding the token in no single run is collapsed to one run
\* with the replaced text, and every other block is left as it was.
C10_ReplaceChangesFirstRunOnly ==
    [][(pc \in {"static", "slot"} /\ pc' # "raised" /\ StepNewText # <<>>) =>
          \A b \in 1..Len(all_blocks_to_modify) :
              ReplaceFrame(all_blocks_to_modify[b], all_blocks_to_modify'[b],
                           StepPlaceholder, StepNewText)]_vars

\* NAME was replaced in the first run holding it and left in the next, then
\* the token of EMAIL, held by no single run, made the block collapse
C10_Witness ==
    \E b \in 1..Len(all_blocks_to_modify) :
        /\ TemplateBlocks[b] = P_GREETING
        /\ Len(all_blocks_to_modify[b]) = 1
        /\ Contains(all_blocks_to_modify[b][1], <<"H", "i", " ">> \o V_ADA)
        /\ Contains(all_blocks_to_modify[b][1], Placeholder(NAME))
        /\ Contains(all_blocks_to_modify[b][1], V_MAIL)

----------------------------------------------------------------------------
(* Properties of the template analysis, checked under SpecAnalyze.         *)

\* the keys of the {{KEY}} tokens of a text, KEY a non-empty string over
\* upper-case letters, digits and the underscore
TokenKeys(text) ==
    {SubSeq(text, i + 2, j - 1) :
        <<i, j>> \in {<<x, y>> \in (1..Len(text)) \X (1..Len(text)) :
                        /\ x + 3 <= y
                        /\ y + 1 <= Len(text)
                        /\ text[x] = "{" /\ text[x + 1] = "{"
                        /\ text[y] = "}" /\ text[y + 1] = "}"
                        /\ \A z \in (x + 2)..(y - 1) : text[z] \in KeyChars}}

\* the ways a key matches ^[A-Z]+[0-9]+_[A-Z_]+$: a letters, d digits, an
\* underscore and a field
IndexedSplits(key) ==
    {<<a, d>> \in (1..Len(key)) \X (1..Len(key)) :
        /\ a + d + 2 <= Len(key)
        /\ \A z \in 1..a : key[z] \in UpperChars
        /\ \A z \in (a + 1)..(a + d) : key[z] \in DigitChars
        /\ key[a + d + 1] = "_"
        /\ \A z \in (a + d + 2)..Len(key) : key[z] \in FieldChars}

IsIndexedKey(key) == IndexedSplits(key) # {}

SplitOf(key) == CHOOSE ad \in IndexedSplits(key) : TRUE
PrefixOf(key) == SubSeq(key, 1, SplitOf(key)[1])
FieldOf(key) == SubSeq(key, SplitOf(key)[1] + SplitOf(key)[2] + 2, Len(key))

\* the number a digit string denotes, read from the left
RECURSIVE DecimalValue(_, _)
DecimalValue(digits, acc) ==
    IF digits = <<>> THEN acc
    ELSE DecimalValue(Tail(digits),
                      10 * acc + CHOOSE n \in 0..9 : IntToStr(n) = <<Head(digits)>>)

IndexOf(key) ==
    DecimalValue(SubSeq(key, SplitOf(key)[1] + 1,
                        SplitOf(key)[1] + SplitOf(key)[2]), 0)

\* the keys of all tokens of the enumerated blocks
AllTokenKeys ==
    UNION {TokenKeys(ParagraphText(all_blocks[b])) : b \in 1..Len(all_blocks)}

\* C7: the static list holds exactly the keys of the {{KEY}} tokens that do
\* not match the indexed pattern, and the group map has one entry per prefix
\* of an indexed token, whose max_index is the greatest index and whose
\* fields are all the fields of the prefix's tokens; no key is in both, and
\* tokens with other characters are in neither.
C7_InventoryMatchesTokens ==
    pc \in {"parsed", "ready"} =>
        LET static == {k \in AllTokenKeys : ~IsIndexedKey(k)}
            indexed == {k \in AllTokenKeys : IsIndexedKey(k)}
            n == Len(dynamic_sections)
        IN  /\ Range(static_placeholders) = static
            /\ Len(static_placeholders) = Cardinality(static)
            /\ {dynamic_sections[g].prefix : g \in 1..n}
                  = {PrefixOf(k) : k \in indexed}
            /\ n = Cardinality({PrefixOf(k) : k \in indexed})
            /\ \A g \in 1..n :
                  LET mine == {k \in indexed :
                                  PrefixOf(k) = dynamic_sections[g].prefix}
                  IN  /\ \E k \in mine :
                            dynamic_sections[g].max_index = IndexOf(k)
                      /\ \A k \in mine :
                            IndexOf(k) <= dynamic_sections[g].max_index
                      /\ Range(dynamic_sections[g].fields)
                            = {FieldOf(k) : k \in mine}
                      /\ Len(dynamic_sections[g].fields)
                            = Cardinality({FieldOf(k) : k \in mine})

\* a parsed template with the static key N and the group J, one of whose
\* tokens writes its index with a leading zero and another has the greatest
\* index, 4
C7_Witness ==
    /\ pc = "ready"
    /\ static_placeholders = << <<"N">> >>
    /\ \E b \in 1..Len(all_blocks) :
          all_blocks[b] = <<Placeholder(<<"J", "0", "2", "_", "D">>)>>
    /\ Len(dynamic_sections) = 1
    /\ dynamic_sections[1] =
          [prefix |-> <<"J">>, max_index |-> 4, fields |-> << <<"D">> >>]

\* C8: the schema has exactly one entry of type string per static key and
\* one entry of type array per group prefix, as many entries as static keys
\* and prefixes together.
C8_SchemaOneEntryPerKey ==
    pc = "ready" =>
        /\ Cardinality(DOMAIN schema_guidelines)
              = Len(static_placeholders) + Len(dynamic_sections)
        /\ \A n \in 1..Len(static_placeholders) :
              /\ static_placeholders[n] \in DOMAIN schema_guidelines
              /\ schema_guidelines[static_placeholders[n]].type = "string"
        /\ \A g \in 1..Len(dynamic_sections) :
              /\ dynamic_sections[g].prefix \in DOMAIN schema_guidelines
              /\ schema_guidelines[dynamic_sections[g].prefix].type = "array"

----------------------------------------------------------------------------
(* Claims about when generate_document writes its output.                  *)

\* the blocks both phases leave when every key and every slot has had its
\* turn
FullyInjected ==
    InjectSections(
        InjectStatics(GetAllBlocks(template), static_placeholders, data_map.d),
        dynamic_sections, data_map.d)

\* C11: the save is the last step of generate_document. A step that writes
\* the output, or ends the call normally, is taken when both loops have run
\* to their end, the blocks being what the injection of every static key and
\* of every slot of every group yields, and nothing but the return follows
\* it; a step at which the generation call or an injection step raises, and
\* the return after it, write nothing, and a call that raised had not saved.
C11_SaveIsLastStep ==
    [][/\ (output' # output \/ pc' = "done") =>
            /\ pc = "dynamic"
            /\ at.prefix > Len(dynamic_sections)
            /\ data_map.t = "dict"
            /\ all_blocks_to_modify = FullyInjected
            /\ all_blocks_to_modify' = all_blocks_to_modify
            /\ pc' = "done"
       /\ pc = "done" => pc' = "ready"
       /\ pc' = "raised" =>
            /\ pc \in {"ready", "static", "dynamic", "slot"}
            /\ output' = output
       /\ pc = "raised" => (pc' = "ready" /\ output' = output)]_vars

\* an injection step of the dynamic phase has raised after the static phase
\* changed a block, and no output file exists
C11_Witness ==
    /\ pc = "raised"
    /\ at.slot >= 1
    /\ all_blocks_to_modify # GetAllBlocks(template)
    /\ output = NoFile

\* C12: generate_document never changes the inventory computed at
\* initialization. No step of any call changes the static placeholder list,
\* the group map, the schema or the blocks enumerated at initialization, nor
\* the template they were computed from, so that after every step the blocks
\* are those of the template, the lists a result of parsing them and the
\* schema the one built from the lists.
C12_InventoryIsImmutable ==
    [][/\ static_placeholders' = static_placeholders
       /\ dynamic_sections' = dynamic_sections
       /\ schema_guidelines' = schema_guidelines
       /\ all_blocks' = all_blocks
       /\ template' = template
       /\ all_blocks' = GetAllBlocks(template')
       /\ [static_placeholders |-> static_placeholders',
           dynamic_sections |-> dynamic_sections'] \in ParseResults(all_blocks')
       /\ schema_guidelines' =
             BuildDynamicSchema(static_placeholders', dynamic_sections')]_vars

\* a call has saved its output and a later call is in its dynamic phase with
\* blocks the injection has changed, the inventory's blocks being those of
\* the template still
C12_Witness ==
    /\ output.written
    /\ pc = "slot"
    /\ all_blocks_to_modify # all_blocks
    /\ all_blocks = GetAllBlocks(template)
    /\ \E b \in 1..Len(all_blocks) : all_blocks_to_modify[b] = <<>>

----------------------------------------------------------------------------
(* CvOptimizer of optimize.py: process rewrites the paragraphs of a CV.    *)

\* the most paragraphs, body and table cell, of an explored CV
MaxCvBlocks == 2

\* the characters str.strip() and str.split() take for whitespace
Whitespace == {" ", "\t", "\n"}

RECURSIVE LStrip(_)
LStrip(s) ==
    IF s # <<>> /\ Head(s) \in Whitespace THEN LStrip(Tail(s)) ELSE s

RECURSIVE RStrip(_)
RStrip(s) ==
    IF s # <<>> /\ s[Len(s)] \in Whitespace
    THEN RStrip(SubSeq(s, 1, Len(s) - 1))
    ELSE s

\* s.strip()
Strip(s) == RStrip(LStrip(s))

\* the length of the word s starts with
RECURSIVE WordLength(_)
WordLength(s) ==
    IF s = <<>> \/ Head(s) \in Whitespace THEN 0 ELSE 1 + WordLength(Tail(s))

\* s.split(): the words between runs of whitespace
RECURSIVE Split(_)
Split(s) ==
    LET t == LStrip(s)
    IN  IF t = <<>> THEN <<>>
        ELSE <<SubSeq(t, 1, WordLength(t))>>
             \o Split(SubSeq(t, WordLength(t) + 1, Len(t)))

\* the threshold were 3 words
IsMeaningfulContent_ThreeWords(text) ==
    IF text = <<>> THEN FALSE
    ELSE IF Len(Split(text)) < 3 THEN FALSE
    ELSE TRUE

\* _is_meaningful_content
IsMeaningfulContent(text) ==
    IF text = <<>> THEN FALSE
    ELSE IF Len(Split(text)) < 4 THEN FALSE
    ELSE TRUE

QUOTE == <<"\"">>

\* _optimize_text_segment, lines 68 to 75: the cleaned answer of the model,
\* or the original text when the call or the reading of the answer raises
OptimizeTextSegment(original_text, answer) ==
    IF answer.raised THEN original_text
    ELSE StrReplace(Strip(answer.text), QUOTE, <<>>)

\* _replace_paragraph_text: one run holding new_text is all that is left
ReplaceParagraphText(paragraph, new_text) ==
    IF paragraph = <<>> THEN Append(paragraph, new_text)
    ELSE Append(ClearedParagraph, new_text)

\* where the paragraphs of the table cells are: table, row, cell, paragraph
CellPaths(tables) ==
    UNION {UNION {UNION {{<<t, r, c, p>> : p \in 1..Len(tables[t][r][c])} :
                         c \in 1..Len(tables[t][r])} :
                  r \in 1..Len(tables[t])} :
           t \in 1..Len(tables)}

\* the order the nested loops of lines 119 to 122 visit them in
Before(a, b) ==
    \E k \in 1..4 : a[k] < b[k] /\ \A j \in 1..(k - 1) : a[j] = b[j]

\* the k-th paragraph the loops over the tables visit
PathAt(tables, k) ==
    CHOOSE a \in CellPaths(tables) :
        Cardinality({b \in CellPaths(tables) : Before(b, a)}) = k - 1

\* the number of paragraphs process visits
NumBlocks(document) ==
    Len(document.paragraphs) + Cardinality(CellPaths(document.tables))

\* the n-th paragraph process visits: the body paragraphs of the loop of
\* line 110, then the cell paragraphs of the loops of lines 119 to 122
BlockAt(document, n) ==
    IF n <= Len(document.paragraphs) THEN document.paragraphs[n]
    ELSE LET a == PathAt(document.tables, n - Len(document.paragraphs))
         IN  document.tables[a[1]][a[2]][a[3]][a[4]]

\* the document with its n-th visited paragraph changed in place
ReplaceBlock(document, n, block) ==
    IF n <= Len(document.paragraphs)
    THEN [document EXCEPT !.paragraphs[n] = block]
    ELSE LET a == PathAt(document.tables, n - Len(document.paragraphs))
         IN  [document EXCEPT !.tables[a[1]][a[2]][a[3]][a[4]] = block]

\* paragraphs a CV is put together from, each the texts of its runs
CV_SUMMARY == << <<" ", "a", " ", "b">>, <<" ", "c", " ", "d", " ">> >>
CV_DATES == << <<"a", " ">>, <<"b", " ", "c">> >>
CV_NAME == << <<"a", "b", "c", "d", "e">> >>
CV_EMPTY == <<>>
CV_BLANK == << <<" ", " ">> >>
CV_MIXED == << <<"a", "\t", "b", "\n">>, <<"c", " ", " ", "d", "e">> >>
CV_CELL == << <<"w", " ", "x", " ">>, <<"y", " ", "z", "\n">> >>

CvParagraphs == {CV_SUMMARY, CV_DATES, CV_NAME, CV_EMPTY, CV_BLANK, CV_MIXED}

\* no table, or one table of one row of one cell of one paragraph
CvTableLayouts == {<<>>, << << << <<CV_CELL>> >> >> >>}

CVs ==
    {d \in [paragraphs : SeqsUpTo(CvParagraphs, MaxCvBlocks),
            tables : CvTableLayouts] :
        Len(GetAllBlocks(d)) \in 1..MaxCvBlocks}

\* what may come of a call of generate_content: it raises, or it answers
\* with a text
Answers ==
    {[raised |-> TRUE, text |-> <<>>],
     [raised |-> FALSE,
      text |-> <<" ", "\"", "e", "\"", " ", "f", " ", "g", " ", "h", "\n">>],
     [raised |-> FALSE, text |-> <<"e">>]}

\* no OnePageCVBuilder has been constructed
NoBuilder ==
    /\ template = NoDocument
    /\ all_blocks = <<>>
    /\ static_placeholders = <<>>
    /\ dynamic_sections = <<>>
    /\ schema_guidelines = EmptyDict
    /\ NoLocals
    /\ output = NoFile
    /\ pc = "none"

\* the state __init__ leaves (line 33), process about to start
InitOptimize ==
    /\ cv \in CVs
    /\ self_doc = cv
    /\ optimized_cv = NoFile
    /\ calls = <<>>
    /\ proc = Locals("para", 1, <<>>, <<>>)
    /\ NoBuilder

\* lines 111 and 112, and 123 and 124: the paragraph's stripped text is
\* taken and tested; a paragraph that fails the test is passed over
ReadParagraph ==
    /\ proc.pc = "para"
    /\ proc.n <= NumBlocks(self_doc)
    /\ LET text == Strip(ParagraphText(BlockAt(self_doc, proc.n)))
       IN  IF IsMeaningfulContent(text)
           THEN proc' = Locals("segment", proc.n, text, <<>>)
           ELSE proc' = Locals("para", proc.n + 1, <<>>, <<>>)
    /\ UNCHANGED <<cv, self_doc, optimized_cv, calls>>
    /\ UNCHANGED <<builderVars, runVars>>

\* lines 114 and 126: _optimize_text_segment calls the model with the text
CallModel ==
    /\ proc.pc = "segment"
    /\ \E answer \in Answers :
          /\ calls' = Append(calls, [n |-> proc.n, segment |-> proc.text,
                                     raised |-> answer.raised])
          /\ proc' = Locals("replace", proc.n, proc.text,
                            OptimizeTextSegment(proc.text, answer))
    /\ UNCHANGED <<cv, self_doc, optimized_cv>>
    /\ UNCHANGED <<builderVars, runVars>>

\* lines 115 and 127: the paragraph is rewritten, the loop goes on
ReplaceParagraph ==
    /\ proc.pc = "replace"
    /\ self_doc' = ReplaceBlock(self_doc, proc.n,
                                ReplaceParagraphText(BlockAt(self_doc, proc.n),
                                                     proc.optimized_text))
    /\ proc' = Locals("para", proc.n + 1, <<>>, <<>>)
    /\ UNCHANGED <<cv, optimized_cv, calls>>
    /\ UNCHANGED <<builderVars, runVars>>

\* line 130: self.doc.save(self.output_path)
SaveOptimized ==
    /\ proc.pc = "para"
    /\ proc.n > NumBlocks(self_doc)
    /\ optimized_cv' = [written |-> TRUE, document |-> self_doc]
    /\ proc' = Locals("done", proc.n, <<>>, <<>>)
    /\ UNCHANGED <<cv, self_doc, calls>>
    /\ UNCHANGED <<builderVars, runVars>>

NextOptimize ==
    \/ ReadParagraph
    \/ CallModel
    \/ ReplaceParagraph
    \/ SaveOptimized

SpecOptimize == InitOptimize /\ [][NextOptimize]_vars

----------------------------------------------------------------------------
(* Properties of process, checked under SpecOptimize.                      *)

\* a word starts at i
IsWordStart(text, i) ==
    text[i] \notin Whitespace /\ (i = 1 \/ text[i - 1] \in Whitespace)

\* the number of whitespace-separated words of a text
WordCount(text) == Cardinality({i \in 1..Len(text) : IsWordStart(text, i)})

\* a text without the whitespace at its two ends
Stripped(text) ==
    LET inked == {i \in 1..Len(text) : text[i] \notin Whitespace}
    IN  IF inked = {} THEN <<>>
        ELSE SubSeq(text, CHOOSE i \in inked : \A j \in inked : i <= j,
                          CHOOSE i \in inked : \A j \in inked : i >= j)

\* the stripped text paragraph n has in the CV as loaded
OriginalStripped(n) == Stripped(ParagraphText(BlockAt(cv, n)))

\* the calls made for paragraph n
CallsFor(n) == {k \in 1..Len(calls) : calls[k].n = n}

\* C13: a paragraph, of the body or of a table cell, is sent to the model
\* only if its stripped text has at least 4 whitespace-separated words, and
\* what is sent is that stripped text; a paragraph with fewer words is left
\* as it was, runs included; a paragraph whose call raised has its original
\* stripped text for text once processed; and when process is done every
\* paragraph has been visited, each paragraph of at least 4 words was sent
\* once whatever became of the calls before it, and the document is saved.
C13_OnlyMeaningfulParagraphsAreSent ==
    /\ \A k \in 1..Len(calls) :
          /\ WordCount(OriginalStripped(calls[k].n)) >= 4
          /\ calls[k].segment = OriginalStripped(calls[k].n)
    /\ \A n \in 1..(proc.n - 1) :
          /\ WordCount(OriginalStripped(n)) < 4 =>
                /\ CallsFor(n) = {}
                /\ BlockAt(self_doc, n) = BlockAt(cv, n)
          /\ \A k \in CallsFor(n) :
                calls[k].raised =>
                    ParagraphText(BlockAt(self_doc, n)) = OriginalStripped(n)
    /\ proc.pc = "done" =>
          /\ proc.n = NumBlocks(cv) + 1
          /\ \A n \in 1..NumBlocks(cv) :
                WordCount(OriginalStripped(n)) >= 4 => Cardinality(CallsFor(n)) = 1
          /\ optimized_cv = [written |-> TRUE, document |-> self_doc]

\* process is done on a CV of a body paragraph and a table cell paragraph,
\* both of 4 words: the call for the first raised and left it with its
\* stripped text, which is not the text it had, the call for the cell's
\* was made none the less and answered, and the document is saved
C13_Witness ==
    /\ proc.pc = "done"
    /\ cv.paragraphs = <<CV_SUMMARY>>
    /\ cv.tables # <<>>
    /\ Len(calls) = 2
    /\ calls[1].raised
    /\ ~calls[2].raised
    /\ ParagraphText(BlockAt(self_doc, 1)) # ParagraphText(CV_SUMMARY)
    /\ ParagraphText(BlockAt(self_doc, 2)) = <<"e", " ", "f", " ", "g", " ", "h">>
    /\ optimized_cv.written

====
